---- MODULE Spec2Model ----
(***************************************************************************)
(* Multichannel nonce support of safe_transaction_service/history/utils.py *)
(* : the capability detector (supports_multichannel), the EIP-712 hash     *)
(* encoder (calculate_safe_tx_hash_multichannel, get_domain_separator) and *)
(* the nonce resolver (get_channel_nonce), driven by one caller that       *)
(* invokes one function at a time against an RPC node whose answers are    *)
(* chosen by the environment.                                              *)
(***************************************************************************)
EXTENDS Integers, Sequences, FiniteSets, TLC

\* Bounds of the model.
MaxChannel == 5   \* channels 0..MaxChannel are queried
MaxNonce == 3     \* on-chain nonces 0..MaxNonce are answered
MaxPad == 1       \* version strings carry 0..MaxPad leading "v"
MaxInt == 1       \* small integer arguments 0..MaxInt, besides the edge values
MaxAddr == 1      \* addresses 0..MaxAddr (as 160-bit numbers)
MaxDataLen == 1   \* transaction data of 0..MaxDataLen bytes
MaxChainId == 2   \* chain ids 1..MaxChainId

VARIABLES
    pc,        \* position of the caller: "idle", "primary", "fallback", "done"
    op,        \* the function being invoked ("none" when idle)
    channel,   \* get_channel_nonce: the channel argument (-1: no invocation)
    calls,     \* get_channel_nonce: contract calls issued so far, in order
    primary,   \* get_channel_nonce: outcome of channelNonces(channel).call()
    fallback,  \* get_channel_nonce: outcome of nonce().call()
    ret,       \* get_channel_nonce: what the invocation gave its caller
    version,   \* supports_multichannel: the version argument
    flag,      \* supports_multichannel: what the invocation gave its caller
    versionRpc,\* get_safe_version: outcome of VERSION().call()
    vret,      \* get_safe_version: what the invocation gave its caller
    tx,        \* calculate_safe_tx_hash_multichannel: the arguments
    chainRpc,  \* calculate_safe_tx_hash_multichannel: outcome of get_chain_id()
    hret,      \* calculate_safe_tx_hash_multichannel: what it gave its caller
    globals,   \* the module-level names bound at import (the two typehashes)
    kept       \* a hash the caller kept from an earlier invocation, with its arguments

nonceVars == <<channel, calls, primary, fallback, ret>>

versionVars == <<version, flag>>

safeVersionVars == <<versionRpc, vret>>

hashVars == <<tx, chainRpc, hret>>

vars == <<pc, op, nonceVars, versionVars, safeVersionVars, hashVars, globals, kept>>

----------------------------------------------------------------------------
(* The RPC node.  A contract call either answers a uint256 or fails; the   *)
(* failures are the ones web3 raises, all of them subclasses of Exception. *)

RpcErrors == {"FunctionNotFound", "Timeout", "ConnectionFailed", "DecodeFailed"}

NoOutcome == [kind |-> "none", value |-> 0]

Ok(n) == [kind |-> "Ok", value |-> n]

Failure(e) == [kind |-> e, value |-> 0]

Outcomes == {Ok(n) : n \in 0..MaxNonce} \cup {Failure(e) : e \in RpcErrors}

\* What a Python call gives its caller: a value, or a raised exception.
NoRet == [kind |-> "none", value |-> 0, err |-> ""]

Return(n) == [kind |-> "return", value |-> n, err |-> ""]

Raise(e) == [kind |-> "raise", value |-> 0, err |-> e]


----------------------------------------------------------------------------
(* Python values and byte strings.  An int is hi * 2^256 + lo with a small *)
(* lo (negative lo counts down from the multiple), which keeps the edges   *)
(* of uint256 exact: 2^256 - 1 is (1, -1), 2^256 is (1, 0), -1 is (0, -1). *)
(* A byte string is a sequence of pieces: single bytes and 32-byte words.  *)
(* keccak is kept symbolic: a digest is its preimage, so two digests are   *)
(* equal exactly when their preimages are (no collisions).                 *)

Piece(t, h, l, p, s) == [tag |-> t, hi |-> h, lo |-> l, pre |-> p, txt |-> s]

PyInt(h, l) == Piece("int", h, l, <<>>, "")

Address(a) == Piece("address", 0, a, <<>>, "")

Byte(b) == Piece("byte", 0, b, <<>>, "")

\* A 32-byte big-endian word holding the number h * 2^256 + l.
Word(h, l) == Piece("word", h, l, <<>>, "")

NoDigest == Piece("none", 0, 0, <<>>, "")

\* Web3.keccak(bytes) and Web3.keccak(text=...).
keccak(bytes) == Piece("keccak", 0, 0, bytes, "")

keccak_text(s) == Piece("keccak", 0, 0, <<Piece("text", 0, 0, <<>>, s)>>, "")

SAFE_TX_TYPEHASH_V1_4_1 == keccak_text("SafeTx(address to,uint256 value,bytes data,uint8 operation,uint256 safeTxGas,uint256 baseGas,uint256 gasPrice,address gasToken,address refundReceiver,uint256 nonce)")

SAFE_TX_TYPEHASH_MULTICHANNEL == keccak_text("SafeTx(uint256 channel,address to,uint256 value,bytes data,uint8 operation,uint256 safeTxGas,uint256 baseGas,uint256 gasPrice,address gasToken,address refundReceiver,uint256 nonce)")

\* The module namespace after import.
ModuleGlobals ==
    [SAFE_TX_TYPEHASH_V1_4_1 |-> SAFE_TX_TYPEHASH_V1_4_1,
     SAFE_TX_TYPEHASH_MULTICHANNEL |-> SAFE_TX_TYPEHASH_MULTICHANNEL]

----------------------------------------------------------------------------
(* supports_multichannel                                                   *)

\* str.lower() on one character.  U+0130 lowers to two code points.
LowerChar(c) ==
    CASE c = "M" -> <<"m">> [] c = "U" -> <<"u">> [] c = "L" -> <<"l">>
      [] c = "T" -> <<"t">> [] c = "I" -> <<"i">> [] c = "C" -> <<"c">>
      [] c = "H" -> <<"h">> [] c = "A" -> <<"a">> [] c = "N" -> <<"n">>
      [] c = "E" -> <<"e">> [] c = "V" -> <<"v">>
      [] c = "U+0130" -> <<"i", "U+0307">>
      [] OTHER -> <<c>>

RECURSIVE lower(_)
lower(s) == IF s = <<>> THEN <<>> ELSE LowerChar(Head(s)) \o lower(Tail(s))

\* `needle in hay` for str: a scan over the start offsets.
RECURSIVE FindFrom(_, _, _)
FindFrom(needle, hay, i) ==
    IF i + Len(needle) - 1 > Len(hay) THEN FALSE
    ELSE IF SubSeq(hay, i, i + Len(needle) - 1) = needle THEN TRUE
    ELSE FindFrom(needle, hay, i + 1)

Contains(needle, hay) == FindFrom(needle, hay, 1)

multichannel == <<"m", "u", "l", "t", "i", "c", "h", "a", "n", "n", "e", "l">>

None == [isNone |-> TRUE, chars |-> <<>>]

Str(s) == [isNone |-> FALSE, chars |-> s]

\* `not version`: None and "" are falsy.
Falsy(v) == v.isNone \/ v.chars = <<>>

supports_multichannel_cased(v) ==
    IF Falsy(v) THEN FALSE ELSE Contains(multichannel, v.chars)

supports_multichannel(v) ==
    IF Falsy(v) THEN FALSE ELSE Contains(multichannel, lower(v.chars))

\* The version strings the caller passes: pad + prefix + middle + suffix.
RECURSIVE Pad(_)
Pad(k) == IF k = 0 THEN <<>> ELSE <<"v">> \o Pad(k - 1)

Prefixes ==
    {<<>>, <<"1", ".", "5", ".", "0">>, <<"1", ".", "5", ".", "0", "-">>,
     <<"1", ".", "5", ".", "0", "+">>}

Middles ==
    {<<>>, multichannel,
     <<"M", "U", "L", "T", "I", "C", "H", "A", "N", "N", "E", "L">>,
     <<"M", "u", "l", "t", "i", "C", "h", "a", "n", "n", "e", "l">>,
     <<"m", "u", "l", "t", "i", "-", "c", "h", "a", "n", "n", "e", "l">>,
     <<"m", "u", "l", "t", "i", "c", "h", "a", "n", "n", "e">>,
     <<"M", "U", "L", "T", "U+0130", "C", "H", "A", "N", "N", "E", "L">>,
     <<"m", "u", "l", "t", "i", "m", "u", "l", "t", "i", "c", "h", "a", "n", "n", "e", "L">>}

Suffixes == {<<>>, <<".", "1">>, <<"1">>, <<"l">>}

Versions ==
    {None} \cup
    {Str(Pad(k) \o p \o m \o s) :
        k \in 0..MaxPad, p \in Prefixes, m \in Middles, s \in Suffixes}

----------------------------------------------------------------------------
(* get_safe_version                                                        *)

\* VERSION().call(): a string, or a failure of the contract call.
NoVersionOutcome == [kind |-> "none", chars |-> <<>>]

VersionOutcomes ==
    {[kind |-> "Ok", chars |-> v.chars] : v \in Versions \ {None}} \cup
    {[kind |-> e, chars |-> <<>>] : e \in RpcErrors}

NoVRet == [kind |-> "none", value |-> None, err |-> ""]

VReturn(v) == [kind |-> "return", value |-> v, err |-> ""]

VRaise(e) == [kind |-> "raise", value |-> None, err |-> e]

\* `except Exception:` around the VERSION call: which failures it catches.
CaughtByVersionHandlerOnlyMissing(e) == e = "FunctionNotFound"

CaughtByVersionHandler(e) == e \in RpcErrors

\* try: return VERSION().call()   except Exception: return None
get_safe_version(o) ==
    IF o.kind = "Ok" THEN VReturn(Str(o.chars))
    ELSE IF CaughtByVersionHandler(o.kind) THEN VReturn(None)
    ELSE VRaise(o.kind)

----------------------------------------------------------------------------
(* eth_abi.encode, for the four types the module uses                      *)

Encoded(w) == [ok |-> TRUE, err |-> "", piece |-> w]

EncodeError(e) == [ok |-> FALSE, err |-> e, piece |-> NoDigest]

NonNegative(v) == v.hi > 0 \/ (v.hi = 0 /\ v.lo >= 0)

\* value <= 2**bits - 1
AtMostUintMaxExclusive(v, bits) ==
    IF bits = 256 THEN v.hi < 1 \/ (v.hi = 1 /\ v.lo <= -2)
    ELSE v.hi < 0 \/ (v.hi = 0 /\ v.lo <= 2^bits - 2)

AtMostUintMax(v, bits) ==
    IF bits = 256 THEN v.hi < 1 \/ (v.hi = 1 /\ v.lo <= -1)
    ELSE v.hi < 0 \/ (v.hi = 0 /\ v.lo <= 2^bits - 1)

\* uint<bits>: the encoder validates, then writes the big-endian word.
EncodeUintWrapping(v, bits) ==
    IF v.tag # "int" THEN EncodeError("EncodingTypeError")
    ELSE IF bits = 256
    THEN Encoded(Word(IF v.lo >= 0 THEN 0 ELSE 1, v.lo))
    ELSE Encoded(Word(0, v.lo % (2^bits)))

EncodeUint(v, bits) ==
    IF v.tag # "int" THEN EncodeError("EncodingTypeError")
    ELSE IF ~(NonNegative(v) /\ AtMostUintMax(v, bits))
    THEN EncodeError("ValueOutOfBounds")
    ELSE Encoded(Word(v.hi, v.lo))

\* address: 12 zero bytes, then the 20 bytes of the address.
EncodeAddress(v) ==
    IF v.tag # "address" THEN EncodeError("EncodingTypeError")
    ELSE Encoded(Word(0, v.lo))

EncodeBytes32(v) ==
    IF v.tag # "keccak" THEN EncodeError("EncodingTypeError") ELSE Encoded(v)

EncodeOne(type, v) ==
    CASE type = "uint256" -> EncodeUint(v, 256)
      [] type = "uint8" -> EncodeUint(v, 8)
      [] type = "address" -> EncodeAddress(v)
      [] type = "bytes32" -> EncodeBytes32(v)

\* encode(types, values): the first value that does not validate raises;
\* otherwise the words, in order.
encode_abi(types, values) ==
    LET enc == [i \in 1..Len(types) |-> EncodeOne(types[i], values[i])]
        bad == {i \in 1..Len(types) : ~enc[i].ok}
    IN  IF bad # {}
        THEN [ok |-> FALSE,
              err |-> enc[CHOOSE i \in bad : \A j \in bad : i <= j].err,
              bytes |-> <<>>]
        ELSE [ok |-> TRUE, err |-> "",
              bytes |-> [i \in 1..Len(types) |-> enc[i].piece]]

----------------------------------------------------------------------------
(* calculate_safe_tx_hash_multichannel and get_domain_separator            *)

NoHRet == [kind |-> "none", hash |-> NoDigest, err |-> ""]

HReturn(h) == [kind |-> "return", hash |-> h, err |-> ""]

HRaise(e) == [kind |-> "raise", hash |-> NoDigest, err |-> e]

\* `Web3.keccak(data) if data else Web3.keccak(b"")`
DataHash(data) == IF data # <<>> THEN keccak(data) ELSE keccak(<<>>)

SafeTxTypes ==
    <<"bytes32", "uint256", "address", "uint256", "bytes32", "uint8",
      "uint256", "uint256", "uint256", "address", "address", "uint256">>

SafeTxValuesChannelZero(t) ==
    <<globals.SAFE_TX_TYPEHASH_MULTICHANNEL, PyInt(0, 0), t.to, t.value,
      DataHash(t.data), t.operation, t.safe_tx_gas, t.base_gas, t.gas_price,
      t.gas_token, t.refund_receiver, t.nonce>>

SafeTxValuesNonceFirst(t) ==
    <<globals.SAFE_TX_TYPEHASH_MULTICHANNEL, t.nonce, t.to, t.value,
      DataHash(t.data), t.operation, t.safe_tx_gas, t.base_gas, t.gas_price,
      t.gas_token, t.refund_receiver, t.channel>>

SafeTxValues(t) ==
    <<globals.SAFE_TX_TYPEHASH_MULTICHANNEL, t.channel, t.to, t.value,
      DataHash(t.data), t.operation, t.safe_tx_gas, t.base_gas, t.gas_price,
      t.gas_token, t.refund_receiver, t.nonce>>

domain_separator_typehash ==
    keccak_text("EIP712Domain(uint256 chainId,address verifyingContract)")

\* ethereum_client.get_chain_id(): the client's chain id, or the failure of
\* the eth_chainId request.
get_chain_id(chain_id, rpc) ==
    IF rpc = "Ok" THEN [ok |-> TRUE, err |-> "", value |-> chain_id]
    ELSE [ok |-> FALSE, err |-> rpc, value |-> PyInt(0, 0)]

get_domain_separator(chain_id, rpc, safe_address) ==
    LET got == get_chain_id(chain_id, rpc)
        enc == encode_abi(<<"bytes32", "uint256", "address">>,
                          <<domain_separator_typehash, got.value, safe_address>>)
    IN  IF ~got.ok THEN HRaise(got.err)
        ELSE IF ~enc.ok THEN HRaise(enc.err)
        ELSE HReturn(keccak(enc.bytes))

\* The value of one invocation: the struct hash first, then the separator.
calculate_safe_tx_hash_multichannel(t, rpc) ==
    LET enc == encode_abi(SafeTxTypes, SafeTxValues(t))
        data_hash == keccak(enc.bytes)
        domain_separator == get_domain_separator(t.chain_id, rpc, t.safe_address)
    IN  IF ~enc.ok THEN HRaise(enc.err)
        ELSE IF domain_separator.kind = "raise" THEN domain_separator
        ELSE HReturn(keccak(<<Byte(25), Byte(1), domain_separator.hash, data_hash>>))

\* get_chain_id() is reached only when the struct encoded.
ChainIdRequested(t) == encode_abi(SafeTxTypes, SafeTxValues(t)).ok

\* The arguments the caller passes: the all-zero transaction on chain 1, and
\* every transaction that differs from it in one argument.
IntFields == {"channel", "value", "safe_tx_gas", "base_gas", "gas_price", "nonce"}

AddressFields == {"to", "gas_token", "refund_receiver", "safe_address"}

TxFields == IntFields \cup AddressFields \cup {"data", "operation", "chain_id"}

IntValues ==
    {PyInt(0, k) : k \in 0..MaxInt} \cup {PyInt(1, -1), PyInt(1, 0), PyInt(0, -1)}

OperationValues == {PyInt(0, 0), PyInt(0, 1), PyInt(0, 256)}

Addresses == {Address(a) : a \in 0..MaxAddr}

RECURSIVE ByteStrings(_)
ByteStrings(n) ==
    IF n = 0 THEN {<<>>}
    ELSE ByteStrings(n - 1) \cup
         {Append(s, b) : s \in ByteStrings(n - 1), b \in {Byte(0), Byte(1)}}

ChainIds == {PyInt(0, c) : c \in 1..MaxChainId}

ZeroTx ==
    [channel |-> PyInt(0, 0), to |-> Address(0), value |-> PyInt(0, 0),
     data |-> <<>>, operation |-> PyInt(0, 0), safe_tx_gas |-> PyInt(0, 0),
     base_gas |-> PyInt(0, 0), gas_price |-> PyInt(0, 0),
     gas_token |-> Address(0), refund_receiver |-> Address(0),
     nonce |-> PyInt(0, 0), safe_address |-> Address(1), chain_id |-> PyInt(0, 1)]

TxArgs ==
    {[ZeroTx EXCEPT ![f] = v] : f \in IntFields, v \in IntValues} \cup
    {[ZeroTx EXCEPT ![f] = v] : f \in AddressFields, v \in Addresses} \cup
    {[ZeroTx EXCEPT !.data = v] : v \in ByteStrings(MaxDataLen)} \cup
    {[ZeroTx EXCEPT !.operation = v] : v \in OperationValues} \cup
    {[ZeroTx EXCEPT !.chain_id = v] : v \in ChainIds}

ChainRpcOutcomes == {"Ok", "Timeout", "ConnectionFailed", "DecodeFailed"}

NoKept == [set |-> FALSE, tx |-> ZeroTx, hash |-> NoDigest, between |-> FALSE]

----------------------------------------------------------------------------
(* The caller.  Between invocations nothing of an invocation is left: the  *)
(* functions keep no state of their own.                                   *)

IdleNonce ==
    /\ channel' = -1
    /\ calls' = <<>>
    /\ primary' = NoOutcome
    /\ fallback' = NoOutcome
    /\ ret' = NoRet

IdleVersion == version' = None /\ flag' = [kind |-> "none", value |-> FALSE]

IdleSafeVersion == versionRpc' = NoVersionOutcome /\ vret' = NoVRet

IdleHash == tx' = ZeroTx /\ chainRpc' = "none" /\ hret' = NoHRet

----------------------------------------------------------------------------
(* get_channel_nonce                                                       *)

ChannelNoncesCall(ch) == [fn |-> "channelNonces", arg |-> ch]

NonceCall == [fn |-> "nonce", arg |-> -1]

\* `except Exception:` around the channelNonces call: which failures it catches.
CaughtByHandler(e) == e \in RpcErrors

\* `if channel == 0:` inside the handler: whether the legacy accessor is tried.
FallsBackAlways(ch) == TRUE

FallsBackNever(ch) == FALSE

FallsBack(ch) == ch = 0

\* `return contract.functions.nonce().call()` inside the handler: the answer is
\* returned, a failure propagates.
FallbackDefaultsToZero(o) == IF o.kind = "Ok" THEN Return(o.value) ELSE Return(0)

FallbackResult(o) == IF o.kind = "Ok" THEN Return(o.value) ELSE Raise(o.kind)

\* The caller enters get_channel_nonce: the try block issues channelNonces.
CallGetChannelNonce(ch) ==
    /\ pc = "idle"
    /\ pc' = "primary"
    /\ op' = "get_channel_nonce"
    /\ channel' = ch
    /\ calls' = <<ChannelNoncesCall(ch)>>
    /\ UNCHANGED <<primary, fallback, ret, versionVars, safeVersionVars, hashVars, globals, kept>>

\* channelNonces(channel).call() answers or fails.
ChannelNoncesReturns(o) ==
    /\ pc = "primary"
    /\ primary' = o
    /\ IF o.kind = "Ok"
       THEN /\ pc' = "done"
            /\ ret' = Return(o.value)
            /\ calls' = calls
       ELSE IF ~CaughtByHandler(o.kind)
       THEN /\ pc' = "done"
            /\ ret' = Raise(o.kind)
            /\ calls' = calls
       ELSE IF FallsBack(channel)
       THEN /\ pc' = "fallback"
            /\ ret' = ret
            /\ calls' = Append(calls, NonceCall)
       ELSE /\ pc' = "done"
            /\ ret' = Return(0)
            /\ calls' = calls
    /\ UNCHANGED <<op, channel, fallback, versionVars, safeVersionVars, hashVars, globals, kept>>

\* nonce().call() answers or fails, inside the except block.
NonceReturns(o) ==
    /\ pc = "fallback"
    /\ fallback' = o
    /\ ret' = FallbackResult(o)
    /\ pc' = "done"
    /\ UNCHANGED <<op, channel, calls, primary, versionVars, safeVersionVars, hashVars, globals, kept>>

----------------------------------------------------------------------------
(* supports_multichannel and calculate_safe_tx_hash_multichannel, invoked  *)

CallSupportsMultichannel(v) ==
    /\ pc = "idle"
    /\ pc' = "done"
    /\ op' = "supports_multichannel"
    /\ version' = v
    /\ flag' = [kind |-> "return", value |-> supports_multichannel(v)]
    /\ UNCHANGED <<nonceVars, safeVersionVars, hashVars, globals, kept>>

----------------------------------------------------------------------------
(* get_safe_version, and the capability detection composed from it         *)

\* The caller enters get_safe_version: the try block issues VERSION().
CallGetSafeVersion ==
    /\ pc = "idle"
    /\ pc' = "version"
    /\ op' = "get_safe_version"
    /\ UNCHANGED <<nonceVars, versionVars, safeVersionVars, hashVars, globals, kept>>

\* VERSION().call() answers or fails.
VersionReturns(o) ==
    /\ pc = "version"
    /\ pc' = "done"
    /\ versionRpc' = o
    /\ vret' = get_safe_version(o)
    /\ UNCHANGED <<op, nonceVars, versionVars, hashVars, globals, kept>>

\* The caller passes what get_safe_version returned to supports_multichannel.
PassVersionToSupportsMultichannel ==
    /\ pc = "done"
    /\ op = "get_safe_version"
    /\ vret.kind = "return"
    /\ op' = "supports_multichannel"
    /\ version' = vret.value
    /\ flag' = [kind |-> "return", value |-> supports_multichannel(vret.value)]
    /\ UNCHANGED <<pc, nonceVars, safeVersionVars, hashVars, globals, kept>>

----------------------------------------------------------------------------
HashInvocation(t, rpc) ==
    /\ pc = "idle"
    /\ pc' = "done"
    /\ op' = "calculate_safe_tx_hash_multichannel"
    /\ tx' = t
    /\ chainRpc' = IF ChainIdRequested(t) THEN rpc ELSE "none"
    /\ hret' = calculate_safe_tx_hash_multichannel(t, rpc)
    /\ UNCHANGED <<nonceVars, versionVars, safeVersionVars, kept>>

\* The function reads the module-level typehash and assigns to no global.
CallCalculateSafeTxHashRebinding(t, rpc) ==
    /\ HashInvocation(t, rpc)
    /\ globals' = [globals EXCEPT
                     !.SAFE_TX_TYPEHASH_MULTICHANNEL = globals.SAFE_TX_TYPEHASH_V1_4_1]

CallCalculateSafeTxHash(t, rpc) ==
    /\ HashInvocation(t, rpc)
    /\ UNCHANGED globals

\* The invocation is over.  Once the caller holds a kept hash it notes that
\* another invocation has completed since.
Finish ==
    /\ pc = "done"
    /\ pc' = "idle"
    /\ op' = "none"
    /\ IdleNonce
    /\ IdleVersion
    /\ IdleSafeVersion
    /\ IdleHash
    /\ kept' = IF kept.set THEN [kept EXCEPT !.between = TRUE] ELSE kept
    /\ UNCHANGED globals

\* The invocation is over and the caller keeps the hash it was given, with the
\* arguments, to compare later ones with.
FinishKeepingHash ==
    /\ pc = "done"
    /\ op = "calculate_safe_tx_hash_multichannel"
    /\ hret.kind = "return"
    /\ ~kept.set
    /\ pc' = "idle"
    /\ op' = "none"
    /\ IdleNonce
    /\ IdleVersion
    /\ IdleSafeVersion
    /\ IdleHash
    /\ kept' = [set |-> TRUE, tx |-> tx, hash |-> hret.hash, between |-> FALSE]
    /\ UNCHANGED globals

----------------------------------------------------------------------------
Init ==
    /\ pc = "idle"
    /\ op = "none"
    /\ channel = -1
    /\ calls = <<>>
    /\ primary = NoOutcome
    /\ fallback = NoOutcome
    /\ ret = NoRet
    /\ version = None
    /\ flag = [kind |-> "none", value |-> FALSE]
    /\ versionRpc = NoVersionOutcome
    /\ vret = NoVRet
    /\ tx = ZeroTx
    /\ chainRpc = "none"
    /\ hret = NoHRet
    /\ globals = ModuleGlobals
    /\ kept = NoKept

Next ==
    \/ \E ch \in 0..MaxChannel : CallGetChannelNonce(ch)
    \/ \E o \in Outcomes : ChannelNoncesReturns(o)
    \/ \E o \in Outcomes : NonceReturns(o)
    \/ \E v \in Versions : CallSupportsMultichannel(v)
    \/ CallGetSafeVersion
    \/ \E o \in VersionOutcomes : VersionReturns(o)
    \/ PassVersionToSupportsMultichannel
    \/ \E t \in TxArgs, rpc \in ChainRpcOutcomes : CallCalculateSafeTxHash(t, rpc)
    \/ Finish
    \/ FinishKeepingHash

Spec == Init /\ [][Next]_vars

----------------------------------------------------------------------------
(* Properties                                                              *)

InNonce == op = "get_channel_nonce"

InHash == op = "calculate_safe_tx_hash_multichannel" /\ pc = "done"

Issued(fn) == {i \in 1..Len(calls) : calls[i].fn = fn}

\* C1: when channelNonces fails with Timeout, ConnectionFailed or DecodeFailed,
\* for any channel, get_channel_nonce raises that failure: it neither returns
\* a value nor issues the nonce() call.
C1_OtherFailuresAreSurfaced ==
    (InNonce /\ primary.kind \in {"Timeout", "ConnectionFailed", "DecodeFailed"})
        => /\ Issued("nonce") = {}
           /\ pc = "done"
           /\ ret = Raise(primary.kind)

\* C2: with channel 0 and channelNonces failing with FunctionNotFound, nonce()
\* is called exactly once, channelNonces no more than once, and the invocation
\* ends with what nonce() gave: its value returned, or its failure raised.
C2_LegacyFallbackOnChannelZero ==
    (InNonce /\ channel = 0 /\ primary.kind = "FunctionNotFound")
        => /\ Cardinality(Issued("nonce")) = 1
           /\ Cardinality(Issued("channelNonces")) <= 1
           /\ pc \in {"fallback", "done"}
           /\ pc = "done" =>
                IF fallback.kind = "Ok" THEN ret = Return(fallback.value)
                ELSE ret = Raise(fallback.kind)

C2_Witness ==
    /\ InNonce /\ pc = "done" /\ channel = 0
    /\ primary.kind = "FunctionNotFound"
    /\ fallback = Ok(2)
    /\ ret = Return(2)
    /\ calls = <<ChannelNoncesCall(0), NonceCall>>

\* C3: with a channel other than 0 and channelNonces failing with
\* FunctionNotFound, get_channel_nonce returns 0 and nonce() is never called.
C3_ZeroForOtherChannels ==
    (InNonce /\ channel # 0 /\ primary.kind = "FunctionNotFound")
        => /\ pc = "done"
           /\ ret = Return(0)
           /\ Issued("nonce") = {}

C3_Witness ==
    /\ InNonce /\ pc = "done" /\ channel = 5
    /\ primary.kind = "FunctionNotFound"
    /\ ret = Return(0)
    /\ calls = <<ChannelNoncesCall(5)>>

\* "multichannel" occurs in low at some offset.
C4_Occurs(low) ==
    \E i \in 1..Len(low) :
        /\ i + 11 <= Len(low)
        /\ \A j \in 1..12 : low[i + j - 1] = multichannel[j]

\* C4: supports_multichannel returns False for None and for "", returns True
\* for any other string exactly when "multichannel" occurs at some offset of
\* the lower-cased string, and never raises; "1.5.0" gives False,
\* "1.5.0-multichannel.1" and "1.5.0+MULTICHANNEL1" give True.
C4_SupportsMultichannel ==
    (op = "supports_multichannel" /\ pc = "done")
        => /\ flag.kind = "return"
           /\ (version.isNone \/ version.chars = <<>>) => flag.value = FALSE
           /\ (~version.isNone /\ version.chars # <<>>)
                => (flag.value <=> C4_Occurs(lower(version.chars)))
           /\ version = Str(<<"1", ".", "5", ".", "0">>) => flag.value = FALSE
           /\ version = Str(<<"1", ".", "5", ".", "0", "-">> \o multichannel \o <<".", "1">>)
                => flag.value = TRUE
           /\ version = Str(<<"1", ".", "5", ".", "0", "+", "M", "U", "L", "T", "I",
                              "C", "H", "A", "N", "N", "E", "L", "1">>)
                => flag.value = TRUE

C4_Witness ==
    /\ op = "supports_multichannel" /\ pc = "done"
    /\ version = Str(<<"1", ".", "5", ".", "0", "+", "M", "U", "L", "T", "I",
                       "C", "H", "A", "N", "N", "E", "L", "1">>)
    /\ flag = [kind |-> "return", value |-> TRUE]

\* The words and digests of the EIP-712 layout, written out.
C5_U(v) == Word(v.hi, v.lo)

C5_A(a) == Word(0, a.lo)

C5_Separator(t) ==
    keccak(<<domain_separator_typehash, C5_U(t.chain_id), C5_A(t.safe_address)>>)

C5_StructHash(t) ==
    keccak(<<SAFE_TX_TYPEHASH_MULTICHANNEL, C5_U(t.channel), C5_A(t.to),
             C5_U(t.value), keccak(t.data), C5_U(t.operation),
             C5_U(t.safe_tx_gas), C5_U(t.base_gas), C5_U(t.gas_price),
             C5_A(t.gas_token), C5_A(t.refund_receiver), C5_U(t.nonce)>>)

\* C5: a returned signing hash is keccak(0x19 ++ 0x01 ++ separator ++
\* structHash), separator = keccak(typehash_domain ++ chainId ++ wallet),
\* structHash = keccak(typehash_multichannel ++ channel, to, value,
\* keccak(data), operation, safeTxGas, baseGas, gasPrice, gasToken,
\* refundReceiver, nonce), each as one 32-byte word in that order; empty data
\* contributes the digest of the zero-length byte string.
C5_SigningHashLayout ==
    (InHash /\ hret.kind = "return")
        => /\ hret.hash =
                keccak(<<Byte(25), Byte(1), C5_Separator(tx), C5_StructHash(tx)>>)
           /\ tx.data = <<>> => hret.hash.pre[4].pre[5] = keccak(<<>>)

C5_Witness ==
    /\ InHash /\ hret.kind = "return"
    /\ tx.channel = PyInt(0, 1) /\ tx.nonce = PyInt(0, 0) /\ tx.data = <<>>

\* The arguments in which this invocation differs from the kept one.
C6_Differing == {f \in TxFields : tx[f] # kept.tx[f]}

\* C6: two returned signing hashes whose arguments (the eleven transaction
\* fields, the wallet address and the chain id) differ in exactly one are
\* different.
C6_OneFieldChangesTheHash ==
    (InHash /\ hret.kind = "return" /\ kept.set /\ Cardinality(C6_Differing) = 1)
        => hret.hash # kept.hash

C6_Witness ==
    /\ InHash /\ hret.kind = "return" /\ kept.set
    /\ C6_Differing = {"channel"}
    /\ hret.hash # kept.hash

\* C7: a signing hash returned for the same chain id, wallet address and
\* transaction parameters as an earlier invocation is the hash that invocation
\* returned, whatever was invoked in between.
C7_Deterministic ==
    (InHash /\ hret.kind = "return" /\ kept.set /\ tx = kept.tx)
        => hret.hash = kept.hash

C7_Witness ==
    /\ InHash /\ hret.kind = "return" /\ kept.set /\ kept.between
    /\ tx = kept.tx
    /\ tx.channel = PyInt(0, 1)
    /\ hret.hash = kept.hash

\* v < 0 or v > 2^256 - 1.
C8_OutOfRange(v) ==
    \/ v.hi < 0
    \/ v.hi = 0 /\ v.lo < 0
    \/ v.hi = 1 /\ v.lo >= 0
    \/ v.hi > 1

\* C8: when channel, value, safeTxGas, baseGas, gasPrice or nonce is negative
\* or above 2^256 - 1, the invocation raises eth_abi's out-of-bounds error
\* (the InvalidParameter kind) and returns no hash.
C8_OutOfRangeIsRejected ==
    (InHash /\ \E f \in IntFields : C8_OutOfRange(tx[f]))
        => /\ hret.kind = "raise"
           /\ hret.err = "ValueOutOfBounds"
           /\ hret.hash = NoDigest

C8_Witness ==
    /\ InHash
    /\ tx.value = PyInt(1, 0)
    /\ hret = HRaise("ValueOutOfBounds")

\* Arguments within the documented domain of the hash.
C9_WellFormed(t) ==
    /\ \A f \in IntFields \cup {"chain_id"} :
          \/ t[f].hi = 0 /\ t[f].lo >= 0
          \/ t[f].hi = 1 /\ t[f].lo < 0
    /\ t.operation \in {PyInt(0, 0), PyInt(0, 1)}
    /\ \A f \in AddressFields : t[f].tag = "address"

C10_RoundTrips ==
    (InNonce /\ pc # "idle")
        => /\ Len(calls) \in {1, 2}
           /\ calls[1] = ChannelNoncesCall(channel)
           /\ Issued("channelNonces") = {1}
           /\ Len(calls) = 2 => calls[2] = NonceCall /\ primary.kind \in RpcErrors
           /\ primary.kind = "Ok" =>
                pc = "done" /\ ret = Return(primary.value) /\ Len(calls) = 1
           /\ (pc = "done" /\ fallback.kind \in RpcErrors) => ret = Raise(fallback.kind)

C10_Witness ==
    /\ InNonce /\ pc = "done"
    /\ calls = <<ChannelNoncesCall(0), NonceCall>>
    /\ fallback.kind = "Timeout"
    /\ ret = Raise("Timeout")

\* An invocation of get_safe_version whose VERSION() call has come back.
C11_Fetched == versionRpc.kind # "none"

\* C11: get_safe_version never raises, and neither does the capability flag
\* computed from what it returned; when VERSION() fails (function not found,
\* timeout, connection failure, decode failure) get_safe_version returns None
\* and the flag is False; the flag is True only if VERSION() answered a string
\* whose lower-cased form contains "multichannel".
C11_DetectionNeverRaises ==
    C11_Fetched
        => /\ pc = "done"
           /\ vret.kind = "return"
           /\ versionRpc.kind \in RpcErrors => vret.value = None
           /\ versionRpc.kind = "Ok" => vret.value = Str(versionRpc.chars)
           /\ op = "supports_multichannel" =>
                /\ flag.kind = "return"
                /\ versionRpc.kind \in RpcErrors => flag.value = FALSE
                /\ flag.value = TRUE =>
                     /\ versionRpc.kind = "Ok"
                     /\ C4_Occurs(lower(versionRpc.chars))

C11_Witness ==
    /\ C11_Fetched
    /\ op = "supports_multichannel"
    /\ versionRpc.kind = "Timeout"
    /\ vret = VReturn(None)
    /\ flag = [kind |-> "return", value |-> FALSE]

====
